---- MODULE Spec2Model ----
(***************************************************************************)
(* naive-server: a goroutine-per-connection HTTP/1.1 server                *)
(* (src/cmd/main.go).                                                      *)
(*                                                                         *)
(* Byte strings are sequences of one-character strings, so that the        *)
(* parsing and formatting the server does (Sscanf, Split, Trim, Atoi,      *)
(* Sprintf) are computed character by character.  Each connection is a     *)
(* task that walks through handleConn; the file system and the process     *)
(* itself are shared by all tasks.                                         *)
(***************************************************************************)
EXTENDS Integers, Sequences, FiniteSets, TLC

(***************************************************************************)
(* Bounds of the model.                                                    *)
(***************************************************************************)
\* number of connections the accept loop hands to tasks in one run
NumConns == 2

(***************************************************************************)
(* Program constants (src/cmd/main.go:19-50).                              *)
(***************************************************************************)
statusOK == 200
statusCreated == 201
statusInternalServerError == 500
statusNotFound == 404
statusBadRequest == 400
statusMethodNotAllowed == 405

methodGet == <<"G", "E", "T">>
methodPost == <<"P", "O", "S", "T">>

textStatusOK == <<"O", "K">>
textStatusCreated == <<"C", "r", "e", "a", "t", "e", "d">>
textStatusInternal ==
  <<"I", "n", "t", "e", "r", "n", "a", "l", " ", "S", "e", "r", "v", "e", "r", " ",
    "E", "r", "r", "o", "r">>
textStatusBadRequest == <<"B", "a", "d", " ", "R", "e", "q", "u", "e", "s", "t">>
textStatusNotFound == <<"N", "o", "t", " ", "F", "o", "u", "n", "d">>
textStatusMethodNotAllowed ==
  <<"M", "e", "t", "h", "o", "d", " ", "N", "o", "t", " ", "A", "l", "l", "o", "w", "e", "d">>

contentTypeTextPlain == <<"t", "e", "x", "t", "/", "p", "l", "a", "i", "n">>
contentTypeOctetStream ==
  <<"a", "p", "p", "l", "i", "c", "a", "t", "i", "o", "n", "/",
    "o", "c", "t", "e", "t", "-", "s", "t", "r", "e", "a", "m">>

serverVersion == <<"0", ".", "1">>
\* "naive-server" followed by the emoticon of the source, kept as one symbol
serverName == <<"n", "a", "i", "v", "e", "-", "s", "e", "r", "v", "e", "r", "<shrug>">>

CR == "\r"
LF == "\n"
CRLF == <<CR, LF>>
SP == <<" ">>

(***************************************************************************)
(* The library functions handleConn and parseHeader call, on byte strings. *)
(***************************************************************************)
Take(s, n) == SubSeq(s, 1, n)
Drop(s, n) == SubSeq(s, n + 1, Len(s))

\* bytes.IndexByte: the first position of c in s, 0 when there is none
IndexByte(s, c) ==
  IF \E i \in 1..Len(s) : s[i] = c
  THEN CHOOSE i \in 1..Len(s) : s[i] = c /\ \A j \in 1..(i - 1) : s[j] # c
  ELSE 0

\* strings.Split(s, sep) for a one-byte separator: every occurrence splits
RECURSIVE Split(_, _)
Split(s, sep) ==
  LET i == IndexByte(s, sep)
  IN IF i = 0 THEN <<s>> ELSE <<Take(s, i - 1)>> \o Split(Drop(s, i), sep)

\* strings.Join(parts, sep)
RECURSIVE Join(_, _)
Join(parts, sep) ==
  IF Len(parts) = 0 THEN <<>>
  ELSE IF Len(parts) = 1 THEN parts[1]
  ELSE parts[1] \o sep \o Join(Tail(parts), sep)

\* strings.Trim(s, cutset): leading and trailing bytes of cutset removed
RECURSIVE TrimLeft(_, _)
TrimLeft(s, cutset) ==
  IF Len(s) > 0 /\ s[1] \in cutset THEN TrimLeft(Tail(s), cutset) ELSE s

RECURSIVE TrimRight(_, _)
TrimRight(s, cutset) ==
  IF Len(s) > 0 /\ s[Len(s)] \in cutset
  THEN TrimRight(Take(s, Len(s) - 1), cutset) ELSE s

Trim(s, cutset) == TrimRight(TrimLeft(s, cutset), cutset)

\* the cutset "\r\n " both callers trim with
TrimSet == {CR, LF, " "}

Digits == <<"0", "1", "2", "3", "4", "5", "6", "7", "8", "9">>

DigitVal(c) == IndexByte(Digits, c) - 1

IsDigit(c) == IndexByte(Digits, c) # 0

RECURSIVE DigitsVal(_, _)
DigitsVal(s, acc) ==
  IF Len(s) = 0 THEN acc ELSE DigitsVal(Tail(s), acc * 10 + DigitVal(s[1]))

\* strconv.Atoi on a short string: an optional sign, then one digit or more;
\* anything else is a syntax error, returned with the value 0
Atoi(s) ==
  LET signed == Len(s) > 0 /\ s[1] \in {"-", "+"}
      ds == IF signed THEN Tail(s) ELSE s
  IN IF Len(ds) = 0 \/ \E i \in 1..Len(ds) : ~IsDigit(ds[i])
     THEN [val |-> 0, err |-> TRUE]
     ELSE [val |-> IF signed /\ s[1] = "-" THEN 0 - DigitsVal(ds, 0) ELSE DigitsVal(ds, 0),
           err |-> FALSE]

\* the %d verb of fmt.Sprintf
RECURSIVE FormatNat(_)
FormatNat(n) ==
  IF n < 10 THEN <<Digits[n + 1]>> ELSE FormatNat(n \div 10) \o <<Digits[(n % 10) + 1]>>

FormatInt(n) == IF n < 0 THEN <<"-">> \o FormatNat(0 - n) ELSE FormatNat(n)

\* fmt's isSpace, on the bytes that occur here
IsSpace(c) == c \in {" ", "\t", CR, LF}

\* fmt's ss.SkipSpace when newlines do not count as space (Sscanf): skips
\* blanks, and "\r" before "\n"; a newline is an error
RECURSIVE SkipSpace(_)
SkipSpace(s) ==
  IF Len(s) = 0 THEN [ok |-> TRUE, rest |-> s]
  ELSE IF s[1] = LF THEN [ok |-> FALSE, rest |-> Tail(s)]
  ELSE IF IsSpace(s[1]) THEN SkipSpace(Tail(s))
  ELSE [ok |-> TRUE, rest |-> s]

\* fmt's ss.token(true, notSpace): the longest prefix without space
RECURSIVE Token(_)
Token(s) ==
  IF Len(s) = 0 \/ IsSpace(s[1]) THEN <<>> ELSE <<s[1]>> \o Token(Tail(s))

\* the %s verb: SkipSpace, then input must remain, then one token
ScanString(s) ==
  LET k == SkipSpace(s)
  IN IF ~k.ok \/ Len(k.rest) = 0
     THEN [ok |-> FALSE, tok |-> <<>>, rest |-> k.rest]
     ELSE [ok |-> TRUE, tok |-> Token(k.rest), rest |-> Drop(k.rest, Len(Token(k.rest)))]

\* spaces other than newline
RECURSIVE SkipBlanks(_)
SkipBlanks(s) ==
  IF Len(s) > 0 /\ IsSpace(s[1]) /\ s[1] # LF THEN SkipBlanks(Tail(s)) ELSE s

\* a blank of the format: one space or more of input, or its end; never a newline
FormatSpace(s) ==
  IF Len(s) = 0 THEN [ok |-> TRUE, rest |-> s]
  ELSE IF ~IsSpace(s[1]) \/ s[1] = LF THEN [ok |-> FALSE, rest |-> s]
  ELSE [ok |-> TRUE, rest |-> SkipBlanks(s)]

\* "\r\n" of the format: blanks, then a newline or the end of input
FormatNewline(s) ==
  LET r == SkipBlanks(s)
  IN Len(r) = 0 \/ r[1] = LF

\* fmt.Sscanf(str, "%s %s %s\r\n", &method, &path, &httpVersion):
\* n is the number of verbs scanned, err whether an error is returned
Sscanf(str) ==
  LET a == ScanString(str)
      sa == FormatSpace(a.rest)
      b == ScanString(sa.rest)
      sb == FormatSpace(b.rest)
      c == ScanString(sb.rest)
      none == [n |-> 0, err |-> TRUE, method |-> <<>>, path |-> <<>>, httpVersion |-> <<>>]
  IN IF ~a.ok THEN none
     ELSE IF ~sa.ok \/ ~b.ok
       THEN [none EXCEPT !.n = 1, !.method = a.tok]
     ELSE IF ~sb.ok \/ ~c.ok
       THEN [none EXCEPT !.n = 2, !.method = a.tok, !.path = b.tok]
     ELSE [n |-> 3, err |-> ~FormatNewline(c.rest),
           method |-> a.tok, path |-> b.tok, httpVersion |-> c.tok]

\* bufio.Reader.ReadBytes('\n') on the buffered bytes buf, the chunks the
\* connection will still deliver, and what follows them (fin): "eof" when the
\* peer closes, "reset" when the connection fails, "open" when the peer sends
\* no more and keeps the connection open.  The result is the line up to and
\* with the delimiter; at the end of the stream what is left, with the error;
\* "block" when the call never returns.
RECURSIVE ReadBytes(_, _, _)
ReadBytes(buf, chunks, fin) ==
  LET i == IndexByte(buf, LF)
  IN IF i # 0
     THEN [line |-> Take(buf, i), err |-> "nil", buf |-> Drop(buf, i), net |-> chunks]
     ELSE IF Len(chunks) > 0 THEN ReadBytes(buf \o Head(chunks), Tail(chunks), fin)
     ELSE IF fin = "open" THEN [line |-> <<>>, err |-> "block", buf |-> buf, net |-> chunks]
     ELSE [line |-> buf, err |-> fin, buf |-> <<>>, net |-> chunks]

(***************************************************************************)
(* The request and the response content (src/cmd/main.go:105-118).         *)
(***************************************************************************)
\* the zero value of type request
request ==
  [method |-> <<>>, httpVersion |-> <<>>, host |-> <<>>, userAgent |-> <<>>,
   path |-> <<>>, pathParts |-> <<>>, contentLength |-> 0]

\* a *content: nil, or a pointer to a content value
nil == [present |-> FALSE, contentType |-> <<>>, body |-> <<>>]

content(contentType, body) ==
  [present |-> TRUE, contentType |-> contentType, body |-> body]

\* req.pathParts[i], with Go's index from 0
Part(req, i) == req.pathParts[i + 1]

\* whether indexing req.pathParts[i] is in range; out of range panics
InRange(req, i) == i + 1 <= Len(req.pathParts)

(***************************************************************************)
(* parseHeader (src/cmd/main.go:224-239).  The line is split at every      *)
(* ":" and only parts[0] and parts[1] are used; parts[1] of a line without *)
(* ":" is out of range and panics.  Atoi's value is stored whether or not  *)
(* it reports an error.                                                    *)
(***************************************************************************)
parseHeader(line, req) ==
  LET parts == Split(line, ":")
      key == Trim(parts[1], TrimSet)
      known == key \in {<<"H", "o", "s", "t">>,
                        <<"U", "s", "e", "r", "-", "A", "g", "e", "n", "t">>,
                        <<"C", "o", "n", "t", "e", "n", "t", "-", "L", "e", "n", "g", "t", "h">>}
      value == Trim(parts[2], TrimSet)
  IN IF ~known THEN [panic |-> FALSE, req |-> req]
     ELSE IF Len(parts) < 2 THEN [panic |-> TRUE, req |-> req]
     ELSE IF key = <<"H", "o", "s", "t">>
       THEN [panic |-> FALSE, req |-> [req EXCEPT !.host = value]]
     ELSE IF key = <<"U", "s", "e", "r", "-", "A", "g", "e", "n", "t">>
       THEN [panic |-> FALSE, req |-> [req EXCEPT !.userAgent = value]]
     ELSE [panic |-> FALSE, req |-> [req EXCEPT !.contentLength = Atoi(value).val]]

(***************************************************************************)
(* buildResponse (src/cmd/main.go:241-271).  The switch writes a status    *)
(* line for four of the status codes and nothing for any other.  The Date  *)
(* value is the clock reading, kept as one symbol.                         *)
(***************************************************************************)
HTTP11 == <<"H", "T", "T", "P", "/", "1", ".", "1">>

statusLine(code, text) == HTTP11 \o SP \o FormatInt(code) \o SP \o text \o CRLF

timeNow == <<"<now>">>

\* buildResponse writing the blank line only together with a content
buildResponseBlankWithContent(respType, c) ==
  LET status ==
        CASE respType = statusOK -> statusLine(statusOK, textStatusOK)
          [] respType = statusCreated -> statusLine(statusCreated, textStatusCreated)
          [] respType = statusNotFound -> statusLine(statusNotFound, textStatusNotFound)
          [] respType = statusMethodNotAllowed ->
               statusLine(statusMethodNotAllowed, textStatusMethodNotAllowed)
          [] OTHER -> <<>>
      date == <<"D", "a", "t", "e", ":", " ">> \o timeNow \o CRLF
      server == <<"S", "e", "r", "v", "e", "r", ":", " ">> \o serverName
                  \o <<" ", "v">> \o serverVersion \o CRLF
      ctype == <<"C", "o", "n", "t", "e", "n", "t", "-", "T", "y", "p", "e", ":", " ">>
                  \o c.contentType \o CRLF
      clen == <<"C", "o", "n", "t", "e", "n", "t", "-", "L", "e", "n", "g", "t", "h", ":", " ">>
                  \o FormatInt(Len(c.body)) \o CRLF
  IN status \o date \o server
       \o (IF c.present THEN ctype \o clen \o CRLF \o c.body ELSE <<>>)

buildResponse(respType, c) ==
  LET status ==
        CASE respType = statusOK -> statusLine(statusOK, textStatusOK)
          [] respType = statusCreated -> statusLine(statusCreated, textStatusCreated)
          [] respType = statusNotFound -> statusLine(statusNotFound, textStatusNotFound)
          [] respType = statusMethodNotAllowed ->
               statusLine(statusMethodNotAllowed, textStatusMethodNotAllowed)
          [] OTHER -> <<>>
      date == <<"D", "a", "t", "e", ":", " ">> \o timeNow \o CRLF
      server == <<"S", "e", "r", "v", "e", "r", ":", " ">> \o serverName
                  \o <<" ", "v">> \o serverVersion \o CRLF
      ctype == <<"C", "o", "n", "t", "e", "n", "t", "-", "T", "y", "p", "e", ":", " ">>
                  \o c.contentType \o CRLF
      clen == <<"C", "o", "n", "t", "e", "n", "t", "-", "L", "e", "n", "g", "t", "h", ":", " ">>
                  \o FormatInt(Len(c.body)) \o CRLF
  IN status \o date \o server
       \o (IF c.present THEN ctype \o clen ELSE <<>>)
       \o CRLF
       \o (IF c.present THEN c.body ELSE <<>>)

(***************************************************************************)
(* The file system under the serving root, as os.ReadFile and os.WriteFile *)
(* see it.  A name maps to nothing, a directory or a regular file with its *)
(* bytes and whether its mode lets the server's user read and write it.    *)
(* The process may run as the superuser, who is not held to file modes.    *)
(***************************************************************************)
NoFile == [kind |-> "none", data |-> <<>>, access |-> FALSE]
Directory == [kind |-> "dir", data |-> <<>>, access |-> TRUE]
RegularFile(data, access) == [kind |-> "file", data |-> data, access |-> access]

\* os.ReadFile(opts.directory + name)
ReadFile(fs, root, name) ==
  LET f == fs[name]
  IN IF f.kind = "file" /\ (f.access \/ root)
     THEN [err |-> FALSE, data |-> f.data]
     ELSE [err |-> TRUE, data |-> <<>>]

\* the permission bits of fs.ModeAppend, the mode handleConn creates with:
\* ModeAppend is a file-type bit, its permission bits are 0, so a file the
\* server creates grants its user no access
ModeAppendGrantsAccess == FALSE

\* os.WriteFile(opts.directory + name, data, fs.ModeAppend): open with
\* O_WRONLY|O_CREATE|O_TRUNC.  A missing file is created with the given
\* mode; an existing one is truncated and keeps its mode.
WriteFile(fs, root, name, data) ==
  LET f == fs[name]
  IN IF f.kind = "none"
     THEN [err |-> FALSE,
           fs |-> [fs EXCEPT ![name] = RegularFile(data, ModeAppendGrantsAccess)]]
     ELSE IF f.kind = "file" /\ (f.access \/ root)
     THEN [err |-> FALSE, fs |-> [fs EXCEPT ![name] = RegularFile(data, f.access)]]
     ELSE [err |-> TRUE, fs |-> fs]

\* the zero byte of a fresh make([]byte, n)
NUL == "<0>"

RECURSIVE Zeros(_)
Zeros(n) == IF n <= 0 THEN <<>> ELSE <<NUL>> \o Zeros(n - 1)

\* bufio.Reader.Read(p) for len(p) = n: with buffered bytes it copies what is
\* buffered, up to n; with none it reads the connection once and copies what
\* that read delivered, up to n.  No error unless that one read fails.
\* n = 0 reads nothing and reports no error.
Read(n, buf, chunks, fin) ==
  LET avail == IF Len(buf) > 0 THEN buf
               ELSE IF Len(chunks) > 0 THEN Head(chunks) ELSE <<>>
      rest == IF Len(buf) > 0 THEN chunks
              ELSE IF Len(chunks) > 0 THEN Tail(chunks) ELSE chunks
      k == IF n < Len(avail) THEN n ELSE Len(avail)
  IN IF n = 0 THEN [n |-> 0, err |-> "nil", p |-> <<>>, buf |-> buf, net |-> chunks]
     ELSE IF Len(avail) = 0
       THEN [n |-> 0, err |-> IF fin = "open" THEN "block" ELSE fin,
             p |-> Zeros(n), buf |-> buf, net |-> chunks]
     ELSE [n |-> k, err |-> "nil", p |-> Take(avail, k) \o Zeros(n - k),
           buf |-> Drop(avail, k), net |-> rest]

(***************************************************************************)
(* What clients send.  A script is the byte stream of one connection, cut  *)
(* into the chunks that successive reads of the connection deliver, and    *)
(* what follows the last chunk.                                            *)
(***************************************************************************)
DELETE == <<"D", "E", "L", "E", "T", "E">>

PathRoot == <<"/">>
PathEchoAB == <<"/", "e", "c", "h", "o", "/", "a", "/", "b">>
PathEcho == <<"/", "e", "c", "h", "o">>
PathEchoSlash == <<"/", "e", "c", "h", "o", "/">>
PathUserAgent == <<"/", "u", "s", "e", "r", "-", "a", "g", "e", "n", "t">>
PathFilesA == <<"/", "f", "i", "l", "e", "s", "/", "a">>
PathFilesZ == <<"/", "f", "i", "l", "e", "s", "/", "z">>
PathFiles == <<"/", "f", "i", "l", "e", "s">>
PathFilesSlash == <<"/", "f", "i", "l", "e", "s", "/">>
PathNope == <<"/", "n", "o", "p", "e">>
PathNoSlash == <<"x">>

Host == <<"H", "o", "s", "t">>
UserAgent == <<"U", "s", "e", "r", "-", "A", "g", "e", "n", "t">>
ContentLength == <<"C", "o", "n", "t", "e", "n", "t", "-", "L", "e", "n", "g", "t", "h">>

\* the chunks of a stream, joined
RECURSIVE Flatten(_)
Flatten(chunks) == IF Len(chunks) = 0 THEN <<>> ELSE Head(chunks) \o Flatten(Tail(chunks))

RequestLine(method, path) == method \o SP \o path \o SP \o HTTP11 \o CRLF

Header(key, value) == key \o <<":", " ">> \o value \o CRLF

\* a request sent whole, after which the client waits for the answer
Whole(bytes) == [chunks |-> <<bytes>>, fin |-> "open"]

\* a request sent whole, after which the client closes its side
Closing(bytes) == [chunks |-> <<bytes>>, fin |-> "eof"]

PostA(length) == RequestLine(methodPost, PathFilesA) \o Header(ContentLength, length) \o CRLF

Scripts ==
  { \* the routes of GET
    Whole(RequestLine(methodGet, PathRoot) \o CRLF),
    Whole(RequestLine(methodGet, PathEchoAB) \o Header(Host, <<"h", ":", "1">>) \o CRLF),
    Whole(RequestLine(methodGet, PathEcho) \o CRLF),
    Whole(RequestLine(methodGet, PathEchoSlash) \o CRLF),
    Whole(RequestLine(methodGet, PathUserAgent) \o Header(UserAgent, <<"c", "/", "1">>) \o CRLF),
    Whole(RequestLine(methodGet, PathUserAgent) \o Header(<<"X">>, <<"y">>)
            \o Header(<<"h", "o", "s", "t">>, <<"h">>) \o CRLF),
    Whole(RequestLine(methodGet, PathUserAgent) \o Header(UserAgent, <<"m", ":", "n">>) \o CRLF),
    Whole(RequestLine(methodGet, PathFilesA) \o CRLF),
    Whole(RequestLine(methodGet, PathFilesZ) \o CRLF),
    Whole(RequestLine(methodGet, PathFiles) \o CRLF),
    Whole(RequestLine(methodGet, PathFilesSlash) \o CRLF),
    Whole(RequestLine(methodGet, PathNope) \o CRLF),
    \* the routes of POST, with the body in the same chunk as the headers,
    \* split across chunks, cut short, or missing
    Whole(PostA(<<"1">>) \o <<"x">>),
    Whole(RequestLine(methodPost, PathFilesZ) \o Header(ContentLength, <<"1">>)
            \o CRLF \o <<"x">>),
    [chunks |-> <<PostA(<<"2">>) \o <<"x">>, <<"y">>>>, fin |-> "open"],
    [chunks |-> <<PostA(<<"2">>), <<"x", "y">>>>, fin |-> "open"],
    Closing(PostA(<<"2">>) \o <<"x">>),
    Closing(PostA(<<"1">>)),
    Whole(PostA(<<"1">>)),
    Whole(RequestLine(methodPost, PathFilesA) \o CRLF),
    Whole(RequestLine(methodPost, PathNope) \o Header(ContentLength, <<"1">>) \o CRLF \o <<"x">>),
    Whole(RequestLine(methodPost, PathFiles) \o CRLF),
    Whole(RequestLine(methodPost, PathFilesSlash) \o CRLF),
    Whole(PostA(<<"-", "1">>)),
    Whole(RequestLine(methodPost, PathFilesA) \o Header(ContentLength, <<"1">>)
            \o Header(ContentLength, <<"z">>) \o CRLF \o <<"x">>),
    \* other methods, and paths without "/"
    Whole(RequestLine(DELETE, PathRoot) \o CRLF),
    Whole(RequestLine(DELETE, PathFilesA) \o CRLF),
    Whole(RequestLine(methodGet, PathNoSlash) \o CRLF),
    Whole(RequestLine(methodPost, PathNoSlash) \o Header(ContentLength, <<"1">>) \o CRLF \o <<"x">>),
    \* malformed requests and streams that end early
    Whole(methodGet \o SP \o PathRoot \o CRLF \o CRLF),
    Whole(methodGet \o SP \o PathRoot \o SP \o HTTP11 \o SP \o <<"x">> \o CRLF \o CRLF),
    Closing(RequestLine(methodGet, PathRoot) \o Header(Host, <<"h">>)),
    Closing(methodGet \o SP \o PathRoot \o SP \o HTTP11),
    Closing(<<>>),
    [chunks |-> <<>>, fin |-> "reset"],
    [chunks |-> <<>>, fin |-> "open"],
    Whole(RequestLine(methodGet, PathRoot) \o Host \o CRLF \o CRLF),
    Whole(RequestLine(methodGet, PathUserAgent) \o <<"a", LF>>
            \o Header(UserAgent, <<"c">>) \o CRLF)
  }

\* the names under the serving root that requests reach: "a", which does
\* not exist when the server starts, "z", a file its user may read and
\* write, and the empty name, which is the serving root itself
FileA == <<"a">>
FileZ == <<"z">>
FileNames == {FileA, FileZ, <<>>}

(***************************************************************************)
(* State.                                                                  *)
(***************************************************************************)
Conns == 1..NumConns

VARIABLES
  proc,      \* the server process: "running", "panicked", "exited", "shutdown"
  superuser, \* whether the process runs as the superuser
  files,     \* the file system under the serving root
  pc,        \* where each connection's task is in handleConn
  net,       \* the chunks each connection will still deliver
  fin,       \* what follows the last chunk of each connection
  rbuf,      \* the bytes reqReader holds buffered
  req,       \* the request being parsed
  buf,       \* the body buffer of POST /files
  out,       \* the byte strings written to each connection, in order
  ret,       \* what handleConn returned: "nil", or the error's text
  stream,    \* history: all the bytes the client of each connection sends
  after,     \* history: the connections already answered when this one was accepted
  sent,      \* history: the status code passed to buildResponse for each write
  nread,     \* history: the count the body read returned, -1 before it
  fslog,     \* history: the file reads and writes, in the order they happened
  built      \* one call of buildResponse on its own: arguments and result

vars == <<proc, superuser, files, pc, net, fin, rbuf, req, buf, out, ret,
          stream, after, sent, nread, fslog, built>>

\* no call of buildResponse on its own
NoCall == [respType |-> 0, content |-> nil, resp |-> <<>>, done |-> FALSE]

\* the server has started and no connection has arrived
Started ==
  /\ proc = "running"
  /\ superuser \in BOOLEAN
  /\ files = [n \in FileNames |->
                IF n = <<>> THEN Directory
                ELSE IF n = FileZ THEN RegularFile(<<"z">>, TRUE)
                ELSE NoFile]
  /\ pc = [c \in Conns |-> "idle"]
  /\ net = [c \in Conns |-> <<>>]
  /\ fin = [c \in Conns |-> "open"]
  /\ rbuf = [c \in Conns |-> <<>>]
  /\ req = [c \in Conns |-> request]
  /\ buf = [c \in Conns |-> <<>>]
  /\ out = [c \in Conns |-> <<>>]
  /\ ret = [c \in Conns |-> "none"]
  /\ stream = [c \in Conns |-> <<>>]
  /\ after = [c \in Conns |-> {}]
  /\ sent = [c \in Conns |-> <<>>]
  /\ nread = [c \in Conns |-> -1]
  /\ fslog = <<>>

Init == Started /\ built = NoCall

(***************************************************************************)
(* The content values handleConn builds.                                   *)
(***************************************************************************)
\* echoContent joining from index 1, the routing key included
echoContentFromKey(r) ==
  content(<<"t", "e", "x", "t", "/", "p", "l", "a", "i", "n">>,
          Join(SubSeq(r.pathParts, 2, Len(r.pathParts)), <<"/">>))

\* the echo route (src/cmd/main.go:192-195): the parts from index 2 on
echoContent(r) ==
  content(<<"t", "e", "x", "t", "/", "p", "l", "a", "i", "n">>,
          Join(SubSeq(r.pathParts, 3, Len(r.pathParts)), <<"/">>))

\* the user-agent route (src/cmd/main.go:198-201)
userAgentContent(r) == content(contentTypeTextPlain, r.userAgent)

\* fileContent with the content type of the other routes
fileContentTextPlain(data) == content(contentTypeTextPlain, data)

\* the files route (src/cmd/main.go:209-212)
fileContent(data) == content(contentTypeOctetStream, data)

\* the last write with a content
methodNotAllowedWithText ==
  <<statusMethodNotAllowed, content(contentTypeTextPlain, textStatusMethodNotAllowed)>>

\* the arguments of the last conn.Write of handleConn (src/cmd/main.go:219)
methodNotAllowed == <<statusMethodNotAllowed, nil>>

\* requestLineError without the checks of what Sscanf returned
requestLineErrorUnchecked(r, s) == r.err \notin {"nil", "eof"}

\* whether handleConn returns an error for the request line
\* (src/cmd/main.go:124-136): r is what ReadBytes returned, s what Sscanf did
requestLineError(r, s) == r.err \notin {"nil", "eof"} \/ s.err \/ s.n # 3

(***************************************************************************)
(* Steps shared by the actions.                                            *)
(***************************************************************************)
Running == proc = "running"

\* conn.Write(buildResponse(respType, c)) for each <<respType, c>> of resps,
\* in order, and then handleConn returns r
Finish(c, resps, r) ==
  /\ out' = [out EXCEPT
       ![c] = @ \o [i \in 1..Len(resps) |-> buildResponse(resps[i][1], resps[i][2])]]
  /\ sent' = [sent EXCEPT ![c] = @ \o [i \in 1..Len(resps) |-> resps[i][1]]]
  /\ pc' = [pc EXCEPT ![c] = "returned"]
  /\ ret' = [ret EXCEPT ![c] = r]

\* a run-time panic in the task of connection c; no task recovers it, so
\* the process dies with it
Panic(c) ==
  /\ proc' = "panicked"
  /\ pc' = [pc EXCEPT ![c] = "panic"]
  /\ UNCHANGED <<superuser, built, files, net, fin, rbuf, req, buf, out, ret, stream, after, sent, nread, fslog>>

(***************************************************************************)
(* main's accept loop (src/cmd/main.go:74-90): a connection is accepted    *)
(* and a task is started for it.  Connections are numbered in the order    *)
(* they are accepted.                                                      *)
(***************************************************************************)
Accept(c) ==
  /\ Running
  /\ pc[c] = "idle"
  /\ \A d \in Conns : d < c => pc[d] # "idle"
  /\ \E s \in Scripts :
       /\ net' = [net EXCEPT ![c] = s.chunks]
       /\ fin' = [fin EXCEPT ![c] = s.fin]
       /\ stream' = [stream EXCEPT ![c] = Flatten(s.chunks)]
  /\ after' = [after EXCEPT ![c] = {d \in Conns : pc[d] \in {"returned", "closed"}}]
  /\ pc' = [pc EXCEPT ![c] = "reqline"]
  /\ UNCHANGED <<proc, superuser, built, files, rbuf, req, buf, out, ret, sent, nread, fslog>>

(***************************************************************************)
(* handleConn, the request line (src/cmd/main.go:122-139).                 *)
(***************************************************************************)
ReadRequestLine(c) ==
  /\ Running
  /\ pc[c] = "reqline"
  /\ LET r == ReadBytes(rbuf[c], net[c], fin[c])
         s == Sscanf(r.line)
     IN /\ r.err # "block"
        /\ rbuf' = [rbuf EXCEPT ![c] = r.buf]
        /\ net' = [net EXCEPT ![c] = r.net]
        /\ IF requestLineError(r, s)
           THEN /\ pc' = [pc EXCEPT ![c] = "returned"]
                /\ ret' = [ret EXCEPT ![c] =
                     IF r.err \notin {"nil", "eof"}
                     THEN "error reading request line bytes"
                     ELSE "error reading request string"]
                /\ req' = IF r.err \notin {"nil", "eof"} THEN req
                          ELSE [req EXCEPT ![c].method = s.method, ![c].path = s.path,
                                           ![c].httpVersion = s.httpVersion]
           ELSE /\ pc' = [pc EXCEPT ![c] = "headers"]
                /\ ret' = ret
                /\ req' = [req EXCEPT
                     ![c].method = s.method, ![c].path = s.path,
                     ![c].httpVersion = s.httpVersion,
                     ![c].pathParts = Split(Trim(s.path, TrimSet), "/")]
  /\ UNCHANGED <<proc, superuser, built, files, fin, buf, out, stream, after, sent, nread, fslog>>

(***************************************************************************)
(* handleConn, one turn of the header loop (src/cmd/main.go:142-154).      *)
(***************************************************************************)
ReadHeaderLine(c) ==
  /\ Running
  /\ pc[c] = "headers"
  /\ LET r == ReadBytes(rbuf[c], net[c], fin[c])
         h == parseHeader(r.line, req[c])
     IN /\ r.err # "block"
        /\ IF r.err = "nil" /\ Len(r.line) # 2 /\ h.panic
           THEN Panic(c)
           ELSE /\ rbuf' = [rbuf EXCEPT ![c] = r.buf]
                /\ net' = [net EXCEPT ![c] = r.net]
                /\ IF r.err # "nil"
                   THEN /\ pc' = [pc EXCEPT ![c] = "returned"]
                        /\ ret' = [ret EXCEPT ![c] = "error reading header line bytes"]
                        /\ req' = req
                   ELSE IF Len(r.line) = 2
                   THEN /\ pc' = [pc EXCEPT ![c] = "route"]
                        /\ UNCHANGED <<ret, req>>
                   ELSE /\ req' = [req EXCEPT ![c] = h.req]
                        /\ UNCHANGED <<pc, ret>>
                /\ UNCHANGED <<proc, superuser, built, files, fin, buf, out, stream, after, sent, nread, fslog>>

(***************************************************************************)
(* handleConn, the dispatch (src/cmd/main.go:156-222) up to the calls that *)
(* read the body or touch a file.  The GET branch does not return: after   *)
(* its switch, control reaches the last conn.Write of the function.        *)
(***************************************************************************)
Route(c) ==
  /\ Running
  /\ pc[c] = "route"
  /\ LET r == req[c]
         to(resps) == /\ Finish(c, resps, "nil")
                      /\ UNCHANGED <<proc, superuser, built, files, net, fin, rbuf, req, buf,
                                     stream, after, nread, fslog>>
         goto(l) == /\ pc' = [pc EXCEPT ![c] = l]
                    /\ UNCHANGED <<proc, superuser, built, files, net, fin, rbuf, req, out,
                                   ret, stream, after, sent, nread, fslog>>
         tail == methodNotAllowed
     IN IF Len(r.pathParts) < 2
          THEN to(<< <<statusBadRequest, nil>> >>)
        ELSE IF r.method = methodPost
          THEN IF Part(r, 1) = <<"f", "i", "l", "e", "s">>
                 THEN IF r.contentLength < 0
                        THEN Panic(c)
                        ELSE goto("body") /\ buf' = [buf EXCEPT ![c] = Zeros(r.contentLength)]
                 ELSE to(<< <<statusNotFound, nil>> >>)
        ELSE IF r.method = methodGet
          THEN CASE Part(r, 1) = <<>> ->
                      to(<< <<statusOK, nil>>, tail >>)
                 [] Part(r, 1) = <<"e", "c", "h", "o">> ->
                      to(<< <<statusOK, echoContent(r)>>, tail >>)
                 [] Part(r, 1) = <<"u", "s", "e", "r", "-", "a", "g", "e", "n", "t">> ->
                      to(<< <<statusOK, userAgentContent(r)>>, tail >>)
                 [] Part(r, 1) = <<"f", "i", "l", "e", "s">> ->
                      goto("readfile") /\ buf' = buf
                 [] OTHER ->
                      to(<< <<statusNotFound, nil>>, tail >>)
        ELSE to(<< tail >>)

(***************************************************************************)
(* handleConn, POST /files: the body read (src/cmd/main.go:166-169).       *)
(***************************************************************************)
ReadBody(c) ==
  /\ Running
  /\ pc[c] = "body"
  /\ LET r == Read(req[c].contentLength, rbuf[c], net[c], fin[c])
     IN /\ r.err # "block"
        /\ nread' = [nread EXCEPT ![c] = r.n]
        /\ IF r.err # "nil"
           THEN /\ Finish(c, << <<statusInternalServerError, nil>> >>,
                          "error parsing request")
                /\ UNCHANGED <<rbuf, net, buf>>
           ELSE /\ buf' = [buf EXCEPT ![c] = r.p]
                /\ rbuf' = [rbuf EXCEPT ![c] = r.buf]
                /\ net' = [net EXCEPT ![c] = r.net]
                /\ pc' = [pc EXCEPT ![c] = "write"]
                /\ UNCHANGED <<out, sent, ret>>
  /\ UNCHANGED <<proc, superuser, built, files, fin, req, stream, after, fslog>>

(***************************************************************************)
(* handleConn, POST /files: the file write (src/cmd/main.go:171-178).      *)
(***************************************************************************)
PostFile(c) ==
  /\ Running
  /\ pc[c] = "write"
  /\ IF ~InRange(req[c], 2)
     THEN Panic(c)
     ELSE LET w == WriteFile(files, superuser, Part(req[c], 2), buf[c])
          IN /\ fslog' = Append(fslog, [c |-> c, op |-> "WriteFile", name |-> Part(req[c], 2)])
             /\ files' = w.fs
             /\ IF w.err
                THEN Finish(c, << <<statusInternalServerError, nil>> >>, "error writing")
                ELSE Finish(c, << <<statusCreated, nil>> >>, "nil")
             /\ UNCHANGED <<proc, superuser, built, net, fin, rbuf, req, buf, stream, after, nread>>

(***************************************************************************)
(* handleConn, GET /files (src/cmd/main.go:203-213, and 219-221 when the   *)
(* read succeeds).                                                         *)
(***************************************************************************)
GetFile(c) ==
  /\ Running
  /\ pc[c] = "readfile"
  /\ IF ~InRange(req[c], 2)
     THEN Panic(c)
     ELSE LET r == ReadFile(files, superuser, Part(req[c], 2))
          IN /\ fslog' = Append(fslog, [c |-> c, op |-> "ReadFile", name |-> Part(req[c], 2)])
             /\ IF r.err
                THEN Finish(c, << <<statusNotFound, nil>> >>, "error reading")
                ELSE Finish(c, << <<statusOK, fileContent(r.data)>>,
                                  methodNotAllowed >>, "nil")
             /\ UNCHANGED <<proc, superuser, built, files, net, fin, rbuf, req, buf, stream, after, nread>>

(***************************************************************************)
(* The task's end (src/cmd/main.go:83-87): the error, if any, is printed   *)
(* and the connection is closed.                                           *)
(***************************************************************************)
Close(c) ==
  /\ Running
  /\ pc[c] = "returned"
  /\ pc' = [pc EXCEPT ![c] = "closed"]
  /\ UNCHANGED <<proc, superuser, built, files, net, fin, rbuf, req, buf, out, ret,
                 stream, after, sent, nread, fslog>>

(***************************************************************************)
(* The ends of the process that no connection causes: l.Accept fails and   *)
(* the accept loop calls os.Exit (src/cmd/main.go:77-80), or a signal      *)
(* arrives and main returns (src/cmd/main.go:92-102).  Every task ends     *)
(* with the process; the files stay.                                       *)
(***************************************************************************)
Halt(how) ==
  /\ Running
  /\ proc' = how
  /\ pc' = [c \in Conns |-> "killed"]
  /\ net' = [c \in Conns |-> <<>>]
  /\ fin' = [c \in Conns |-> "open"]
  /\ rbuf' = [c \in Conns |-> <<>>]
  /\ req' = [c \in Conns |-> request]
  /\ buf' = [c \in Conns |-> <<>>]
  /\ out' = [c \in Conns |-> <<>>]
  /\ ret' = [c \in Conns |-> "none"]
  /\ stream' = [c \in Conns |-> <<>>]
  /\ after' = [c \in Conns |-> {}]
  /\ sent' = [c \in Conns |-> <<>>]
  /\ nread' = [c \in Conns |-> -1]
  /\ fslog' = <<>>
  /\ UNCHANGED <<superuser, files, built>>

AcceptError == Halt("exited")

Shutdown == Halt("shutdown")

Next ==
  \/ \E c \in Conns : Accept(c)
  \/ \E c \in Conns : ReadRequestLine(c)
  \/ \E c \in Conns : ReadHeaderLine(c)
  \/ \E c \in Conns : Route(c)
  \/ \E c \in Conns : ReadBody(c)
  \/ \E c \in Conns : PostFile(c)
  \/ \E c \in Conns : GetFile(c)
  \/ \E c \in Conns : Close(c)
  \/ AcceptError
  \/ Shutdown

Spec == Init /\ [][Next]_vars

(***************************************************************************)
(* A step of the task of connection c, the goroutine main starts for it    *)
(* (src/cmd/main.go:82-88): handleConn from its first read to its return,  *)
(* and then conn.Close().                                                  *)
(***************************************************************************)
TaskStep(c) ==
  \/ ReadRequestLine(c)
  \/ ReadHeaderLine(c)
  \/ Route(c)
  \/ ReadBody(c)
  \/ PostFile(c)
  \/ GetFile(c)
  \/ Close(c)

(***************************************************************************)
(* buildResponse on its own (src/cmd/main.go:241-271): one call, with its  *)
(* arguments drawn from the status codes and from contents of both content *)
(* types whose bodies are short byte strings, line terminators included.   *)
(***************************************************************************)
\* the longest body of a call of buildResponse on its own
MaxBody == 2

BodyBytes == {"a", CR, LF}

Bodies == UNION {[1..n -> BodyBytes] : n \in 0..MaxBody}

StatusCodes ==
  {statusOK, statusCreated, statusInternalServerError, statusNotFound,
   statusBadRequest, statusMethodNotAllowed}

Contents ==
  {nil} \cup {content(t, b) : t \in {contentTypeTextPlain, contentTypeOctetStream},
                             b \in Bodies}

InitBuild ==
  /\ Started
  /\ built \in {[respType |-> s, content |-> k, resp |-> <<>>, done |-> FALSE] :
                  s \in StatusCodes, k \in Contents}

Build ==
  /\ ~built.done
  /\ built' = [built EXCEPT !.resp = buildResponse(built.respType, built.content),
                            !.done = TRUE]
  /\ UNCHANGED <<proc, superuser, files, pc, net, fin, rbuf, req, buf, out, ret,
                 stream, after, sent, nread, fslog>>

NextBuild == Build

SpecBuild == InitBuild /\ [][NextBuild]_vars

(***************************************************************************)
(* What a client sees.  The bytes on a connection are read as HTTP/1.1     *)
(* messages: a start line, header fields, a blank line and a body, which   *)
(* is as long as Content-Length says or, without that field, lasts until   *)
(* the connection closes.                                                  *)
(***************************************************************************)
\* the position of the first CR LF pair of s, 0 when there is none
FindCRLF(s) ==
  IF \E i \in 1..(Len(s) - 1) : s[i] = CR /\ s[i + 1] = LF
  THEN CHOOSE i \in 1..(Len(s) - 1) :
         /\ s[i] = CR /\ s[i + 1] = LF
         /\ \A j \in 1..(i - 1) : ~(s[j] = CR /\ s[j + 1] = LF)
  ELSE 0

\* the lines before the first blank line, without their CR LF, and the bytes
\* after the blank line
RECURSIVE HeadLines(_)
HeadLines(s) ==
  LET i == FindCRLF(s)
      t == HeadLines(Drop(s, i + 1))
  IN IF i = 0 THEN [lines |-> <<>>, rest |-> <<>>, ended |-> FALSE]
     ELSE IF i = 1 THEN [lines |-> <<>>, rest |-> Drop(s, 2), ended |-> TRUE]
     ELSE [lines |-> <<Take(s, i - 1)>> \o t.lines, rest |-> t.rest, ended |-> t.ended]

FieldName(line) ==
  IF IndexByte(line, ":") = 0 THEN line ELSE Take(line, IndexByte(line, ":") - 1)

\* everything after the first ":", trimmed
FieldValue(line) ==
  IF IndexByte(line, ":") = 0 THEN <<>> ELSE Trim(Drop(line, IndexByte(line, ":")), TrimSet)

HasField(fields, name) == \E i \in 1..Len(fields) : FieldName(fields[i]) = name

\* the value of the first field called name, empty when there is none
Field(fields, name) ==
  IF HasField(fields, name)
  THEN FieldValue(fields[CHOOSE i \in 1..Len(fields) :
                           /\ FieldName(fields[i]) = name
                           /\ \A j \in 1..(i - 1) : FieldName(fields[j]) # name])
  ELSE <<>>

ContentTypeName == <<"C", "o", "n", "t", "e", "n", "t", "-", "T", "y", "p", "e">>

\* the reason phrase of each status code
ReasonPhrase(code) ==
  CASE code = statusOK -> textStatusOK
    [] code = statusCreated -> textStatusCreated
    [] code = statusBadRequest -> textStatusBadRequest
    [] code = statusNotFound -> textStatusNotFound
    [] code = statusMethodNotAllowed -> textStatusMethodNotAllowed
    [] code = statusInternalServerError -> textStatusInternal
    [] OTHER -> <<>>

\* the first response in the bytes a client receives before the close
ResponseOf(bytes) ==
  LET m == HeadLines(bytes)
      first == IF Len(m.lines) > 0 THEN m.lines[1] ELSE <<>>
      valid == /\ m.ended
               /\ Len(first) >= 13
               /\ Take(first, 9) = HTTP11 \o SP
               /\ \A i \in 10..12 : IsDigit(first[i])
               /\ first[13] = " "
      fields == IF Len(m.lines) > 0 THEN Tail(m.lines) ELSE <<>>
      length == Atoi(Field(fields, ContentLength)).val
  IN [valid |-> valid,
      code |-> IF valid THEN DigitsVal(SubSeq(first, 10, 12), 0) ELSE 0,
      reason |-> IF valid THEN Drop(first, 13) ELSE <<>>,
      fields |-> fields,
      body |-> IF HasField(fields, ContentLength) THEN Take(m.rest, length) ELSE m.rest]

\* all the bytes written to connection c
Wire(c) == Flatten(out[c])

\* a response with this status, without content fields and without body
IsBare(v, code) ==
  /\ v.valid /\ v.code = code /\ v.reason = ReasonPhrase(code)
  /\ ~HasField(v.fields, ContentTypeName) /\ ~HasField(v.fields, ContentLength)
  /\ v.body = <<>>

\* a response with this status, content type and body, and their length field
HasContent(v, code, type, body) ==
  /\ v.valid /\ v.code = code /\ v.reason = ReasonPhrase(code)
  /\ Field(v.fields, ContentTypeName) = type
  /\ Field(v.fields, ContentLength) = FormatInt(Len(body))
  /\ v.body = body

\* the request as its client sent it
RequestOf(c) == HeadLines(stream[c])

RequestFields(c) == IF Len(RequestOf(c).lines) > 0 THEN Tail(RequestOf(c).lines) ELSE <<>>

\* the client sent a request line and a header block closed by a blank line
WellFormed(c) == RequestOf(c).ended /\ Len(RequestOf(c).lines) > 0

ParseErrors ==
  {"error reading request line bytes", "error reading request string",
   "error reading header line bytes"}

\* handleConn has parsed the request of c and has returned
Completed(c) == pc[c] \in {"returned", "closed"} /\ ret[c] \notin ParseErrors

\* handleConn has parsed the request of c
Parsed(c) == pc[c] \in {"route", "body", "write", "readfile"} \/ Completed(c)

IsMethod(c, method) == Parsed(c) /\ req[c].method = method

\* the routing key, pathParts[1]
HasKey(c, key) == Parsed(c) /\ InRange(req[c], 1) /\ Part(req[c], 1) = key

KeyEcho == <<"e", "c", "h", "o">>
KeyUserAgent == <<"u", "s", "e", "r", "-", "a", "g", "e", "n", "t">>
KeyFiles == <<"f", "i", "l", "e", "s">>

\* connection c made a file operation
Touched(c) == \E i \in 1..Len(fslog) : fslog[i].c = c

(***************************************************************************)
(* Claims.                                                                 *)
(***************************************************************************)

\* C1: for every request that handleConn parses successfully the handler
\* writes exactly one response to the connection, and never more than one.
C1_ExactlyOneResponse ==
  \A c \in Conns :
    /\ Len(out[c]) <= 1
    /\ Completed(c) => Len(out[c]) = 1

\* C2: every response buildResponse produces, for each of the six status
\* codes passed to it, begins with the status line carrying that code and
\* its reason phrase, followed by the Date and Server fields.
C2_StatusLine ==
  \A c \in Conns : \A i \in 1..Len(out[c]) :
    LET v == ResponseOf(out[c][i])
    IN /\ v.valid
       /\ v.code = sent[c][i]
       /\ v.reason = ReasonPhrase(sent[c][i])
       /\ Len(v.fields) >= 2
       /\ FieldName(v.fields[1]) = <<"D", "a", "t", "e">>
       /\ FieldName(v.fields[2]) = <<"S", "e", "r", "v", "e", "r">>

\* C3: no bytes a client sends make the process terminate: no task panics,
\* so the accept loop and the other tasks keep running.
C3_NoPanic == proc # "panicked" /\ \A c \in Conns : pc[c] # "panic"

\* the request of c is a POST to /files/<name>
IsPostFile(c, name) ==
  /\ IsMethod(c, methodPost) /\ HasKey(c, KeyFiles)
  /\ InRange(req[c], 2) /\ Part(req[c], 2) = name

\* the request of c is a GET of /files/<name>
IsGetFile(c, name) ==
  /\ IsMethod(c, methodGet) /\ HasKey(c, KeyFiles)
  /\ InRange(req[c], 2) /\ Part(req[c], 2) = name

\* the body bytes the client of c sent after its header block
BodySent(c) == RequestOf(c).rest

\* connection c wrote a file
Wrote(c) == \E i \in 1..Len(fslog) : fslog[i].c = c /\ fslog[i].op = "WriteFile"

\* C4: for a POST to /files/<name> the handler reads exactly contentLength
\* body bytes; when the stream holds fewer than that, the request ends with
\* a 500 response, no 201 is written and no file is written.
C4_ShortBodyIs500 ==
  \A c \in Conns :
    (Completed(c) /\ IsMethod(c, methodPost) /\ HasKey(c, KeyFiles) /\ nread[c] >= 0) =>
      IF Len(BodySent(c)) >= req[c].contentLength
      THEN nread[c] = req[c].contentLength
      ELSE /\ sent[c] = <<statusInternalServerError>>
           /\ ~Wrote(c)

\* g was accepted after p was answered, and the read of g is the first file
\* operation after the write of p
Follows(g, p, name) ==
  /\ p \in after[g]
  /\ \E i \in 1..Len(fslog) :
       /\ i + 1 <= Len(fslog)
       /\ fslog[i] = [c |-> p, op |-> "WriteFile", name |-> name]
       /\ fslog[i + 1] = [c |-> g, op |-> "ReadFile", name |-> name]

\* C5: a POST /files/N whose Content-Length is the length of its body B is
\* answered 201 Created, and a GET /files/N that follows it, with no write
\* to N in between, is answered 200 with content type
\* application/octet-stream and body exactly B.
C5_RoundTrip ==
  \A p \in Conns : \A g \in Conns :
    (/\ p # g
     /\ Completed(p) /\ IsPostFile(p, FileA) /\ WellFormed(p)
     /\ HasField(RequestFields(p), ContentLength)
     /\ req[p].contentLength = Len(BodySent(p))) =>
      /\ ResponseOf(Wire(p)).valid /\ ResponseOf(Wire(p)).code = statusCreated
      /\ (Completed(g) /\ IsGetFile(g, FileA) /\ Follows(g, p, FileA)) =>
           HasContent(ResponseOf(Wire(g)), statusOK, contentTypeOctetStream, BodySent(p))

\* C6: a path of fewer than 2 segments is answered 400 Bad Request with no
\* body, whatever the method, and no body byte is read and no file is read
\* or written for it.
C6_ShortPathIs400 ==
  \A c \in Conns :
    (Completed(c) /\ Len(req[c].pathParts) < 2) =>
      /\ IsBare(ResponseOf(Wire(c)), statusBadRequest)
      /\ nread[c] = -1
      /\ ~Touched(c)

\* the read of c is the last file operation so far
ReadLast(c, name) ==
  Len(fslog) > 0 /\ fslog[Len(fslog)] = [c |-> c, op |-> "ReadFile", name |-> name]

\* C7: for a GET whose routing key is "files": when reading the file named
\* by pathParts[2] succeeds the response is 200 OK with content type
\* application/octet-stream and the file's bytes as body; when it fails the
\* response is 404 Not Found with no body.
C7_GetFile ==
  \A c \in Conns : \A name \in FileNames :
    (Completed(c) /\ IsGetFile(c, name) /\ ReadLast(c, name)) =>
      IF ReadFile(files, superuser, name).err
      THEN IsBare(ResponseOf(Wire(c)), statusNotFound)
      ELSE HasContent(ResponseOf(Wire(c)), statusOK, contentTypeOctetStream,
                      files[name].data)

\* C7 happens: one GET of a file was answered with its bytes and another
\* GET found nothing to read
C7_Witness ==
  \E c \in Conns : \E d \in Conns :
    /\ Completed(c) /\ IsGetFile(c, FileZ) /\ ReadLast(c, FileZ)
    /\ ~ReadFile(files, superuser, FileZ).err /\ Len(files[FileZ].data) > 0
    /\ Completed(d) /\ HasKey(d, KeyFiles) /\ IsMethod(d, methodGet)
    /\ sent[d] = <<statusNotFound>>

\* the path of the request of c, split at "/"
Segments(c) == Split(req[c].path, "/")

\* C8: for a GET whose routing key is "echo" the response is 200 OK with
\* content type text/plain and the path segments from index 2 on, joined
\* with "/", as body; with no segment after index 1 the body is empty and
\* Content-Length is 0.
C8_Echo ==
  \A c \in Conns :
    (Completed(c) /\ IsMethod(c, methodGet) /\ HasKey(c, KeyEcho)) =>
      LET v == ResponseOf(Wire(c))
          rest == SubSeq(Segments(c), 3, Len(Segments(c)))
      IN /\ HasContent(v, statusOK, contentTypeTextPlain, Join(rest, <<"/">>))
         /\ Len(rest) = 0 => (v.body = <<>> /\ Field(v.fields, ContentLength) = <<"0">>)

\* C8 happens: an echo of two segments was answered, and so was an echo
\* without any
C8_Witness ==
  \E c \in Conns : \E d \in Conns :
    /\ Completed(c) /\ IsMethod(c, methodGet) /\ HasKey(c, KeyEcho)
    /\ Len(Segments(c)) = 4
    /\ Completed(d) /\ IsMethod(d, methodGet) /\ HasKey(d, KeyEcho)
    /\ Len(Segments(d)) = 2

\* C9: for GET /user-agent the response is 200 OK with content type
\* text/plain and, as body, the value of the request's User-Agent header:
\* the text after the header's first ":", trimmed; empty without the header.
C9_UserAgent ==
  \A c \in Conns :
    (Completed(c) /\ IsMethod(c, methodGet) /\ HasKey(c, KeyUserAgent) /\ WellFormed(c)) =>
      HasContent(ResponseOf(Wire(c)), statusOK, contentTypeTextPlain,
                 Field(RequestFields(c), UserAgent))

\* C10: parseHeader splits a line at its first ":" only: for the keys Host,
\* User-Agent and Content-Length the stored value is all that follows the
\* first ":", trimmed, and a line with another key changes nothing.
C10_FirstColon ==
  \A c \in Conns :
    (Parsed(c) /\ WellFormed(c)) =>
      /\ req[c].host = Field(RequestFields(c), Host)
      /\ req[c].userAgent = Field(RequestFields(c), UserAgent)
      /\ \/ Atoi(Field(RequestFields(c), ContentLength)).err
         \/ Cardinality({i \in 1..Len(RequestFields(c)) :
                           FieldName(RequestFields(c)[i]) = ContentLength}) # 1
         \/ req[c].contentLength = Atoi(Field(RequestFields(c), ContentLength)).val

\* the contentLength the header fields leave behind when a Content-Length
\* whose value is not an integer changes nothing: the value of the last
\* Content-Length that is one, prev when there is none
RECURSIVE LengthAfter(_, _)
LengthAfter(fields, prev) ==
  IF Len(fields) = 0 THEN prev
  ELSE LET v == Atoi(FieldValue(fields[1]))
       IN LengthAfter(Tail(fields),
                      IF FieldName(fields[1]) = ContentLength /\ ~v.err THEN v.val ELSE prev)

\* C11: a Content-Length header whose value is not an integer leaves
\* contentLength at the value it had before that line (the value of an
\* earlier valid Content-Length, 0 without one), and the request is parsed
\* without an error.
C11_KeepsPrevious ==
  \A c \in Conns :
    (Parsed(c) /\ WellFormed(c)) =>
      req[c].contentLength = LengthAfter(RequestFields(c), 0)

\* C12: a request of at least 2 path segments whose method is neither GET
\* nor POST is answered 405 Method Not Allowed with no body, whatever its
\* path, and no body byte is read and no file is read or written for it.
C12_OtherMethods ==
  \A c \in Conns :
    (/\ Completed(c) /\ Len(req[c].pathParts) >= 2
     /\ req[c].method \notin {methodGet, methodPost}) =>
      /\ Len(out[c]) = 1
      /\ IsBare(ResponseOf(Wire(c)), statusMethodNotAllowed)
      /\ nread[c] = -1
      /\ ~Touched(c)

\* C12 happens: a DELETE of / and a DELETE of a file were both answered
C12_Witness ==
  \E c \in Conns : \E d \in Conns :
    /\ Completed(c) /\ req[c].method = DELETE /\ HasKey(c, <<>>)
    /\ Completed(d) /\ req[d].method = DELETE
    /\ HasKey(d, KeyFiles) /\ Part(req[d], 2) = FileA
    /\ sent[c] = <<statusMethodNotAllowed>> /\ sent[d] = <<statusMethodNotAllowed>>

\* the routing keys the GET branch knows
GetKeys == {<<>>, KeyEcho, KeyUserAgent, KeyFiles}

\* the request of c matches no route of its method
Unmatched(c) ==
  /\ Parsed(c) /\ InRange(req[c], 1)
  /\ \/ req[c].method = methodGet /\ Part(req[c], 1) \notin GetKeys
     \/ req[c].method = methodPost /\ Part(req[c], 1) # KeyFiles

\* C13: a request whose routing key matches no route of its method is
\* answered 404 Not Found with no body: a GET whose key is none of "",
\* "echo", "user-agent", "files", and a POST whose key is not "files"; for
\* the POST no body byte is read and no file is written.
C13_Unmatched ==
  \A c \in Conns :
    (Completed(c) /\ Unmatched(c)) =>
      /\ IsBare(ResponseOf(Wire(c)), statusNotFound)
      /\ req[c].method = methodPost => (nread[c] = -1 /\ ~Wrote(c))

\* C14: a GET whose path is exactly "/" is answered 200 OK with no body and
\* without Content-Type and Content-Length; handling it does not index
\* pathParts at 2 and makes no file call.
C14_Root ==
  \A c \in Conns :
    (Parsed(c) /\ req[c].method = methodGet /\ req[c].path = PathRoot) =>
      /\ pc[c] \notin {"panic", "readfile", "body", "write"}
      /\ ~Touched(c)
      /\ Completed(c) => IsBare(ResponseOf(Wire(c)), statusOK)

\* the call of buildResponse on its own has returned
Built == built.done

\* C15: for every status code and every content, present or not, the bytes
\* buildResponse returns hold the Date and Server fields; they hold
\* Content-Type and Content-Length exactly when a content is present, and
\* then Content-Length is the byte length of the body; the header block
\* ends with one blank line, and after it come the body bytes when a
\* content is present and nothing otherwise.
C15_Format ==
  Built =>
    LET m == HeadLines(built.resp)
        k == built.content
    IN /\ m.ended
       /\ HasField(m.lines, <<"D", "a", "t", "e">>)
       /\ HasField(m.lines, <<"S", "e", "r", "v", "e", "r">>)
       /\ HasField(m.lines, ContentTypeName) <=> k.present
       /\ HasField(m.lines, ContentLength) <=> k.present
       /\ k.present =>
            /\ Field(m.lines, ContentTypeName) = k.contentType
            /\ Field(m.lines, ContentLength) = FormatInt(Len(k.body))
            /\ m.rest = k.body
       /\ ~k.present => m.rest = <<>>

\* C15 happens: a response was built for a status the switch does not know,
\* with a content whose body is itself a line terminator
C15_Witness ==
  /\ Built
  /\ built.respType = statusInternalServerError
  /\ built.content.present /\ built.content.body = CRLF

\* the bytes of its connection the task of c has taken out of reqReader
Consumed(c) ==
  Take(stream[c], Len(stream[c]) - Len(rbuf[c]) - Len(Flatten(net[c])))

\* the last line of bytes, without the line before it
LastLine(bytes) ==
  LET body == Take(bytes, Len(bytes) - 1)
      starts == {i \in 1..Len(body) : body[i] = LF}
  IN IF Len(bytes) = 0 THEN <<>>
     ELSE IF starts = {} THEN bytes
     ELSE Drop(bytes, CHOOSE i \in starts : \A j \in starts : j <= i)

\* C16: the header block ends only at a line that is the CR LF pair alone:
\* when the header loop is left, the last line read is that blank line, so
\* no other line, such as the 2 bytes "a" LF, ends header parsing and leaves
\* the headers after it unparsed.
C16_BlankLineEnds ==
  \A c \in Conns : pc[c] = "route" => LastLine(Consumed(c)) = CRLF

\* C17: after any sequence of header lines contentLength is a non-negative
\* integer, 0 when no valid Content-Length was seen, so the size handleConn
\* gives make for the body buffer of POST /files is never negative.
C17_NonNegative ==
  \A c \in Conns :
    /\ req[c].contentLength >= 0
    /\ (Parsed(c) /\ WellFormed(c) /\ ~HasField(RequestFields(c), ContentLength)) =>
         req[c].contentLength = 0

\* the number of tokens, separated by white space, of s
RECURSIVE CountTokens(_)
CountTokens(s) ==
  LET r == TrimLeft(s, {" ", "\t", CR, LF})
  IN IF Len(r) = 0 THEN 0 ELSE 1 + CountTokens(Drop(r, Len(Token(r))))

\* the first line the client of c sends
FirstLine(c) ==
  IF IndexByte(stream[c], LF) = 0 THEN stream[c]
  ELSE Take(stream[c], IndexByte(stream[c], LF))

\* connection c was accepted and its task has not been ended from outside
Accepted(c) == pc[c] \notin {"idle", "killed"}

\* the request line of c has fewer than three tokens
FewTokens(c) == Accepted(c) /\ CountTokens(FirstLine(c)) < 3

\* the stream of c ends before the blank line: after the request line it
\* holds only header field lines, each with a ":" and ended by CR LF, and
\* then ends, possibly in the middle of a line
EndsEarly(c) ==
  /\ Accepted(c)
  /\ fin[c] \in {"eof", "reset"}
  /\ LET parts == Split(stream[c], LF)
     IN \A i \in 2..(Len(parts) - 1) :
          /\ IndexByte(parts[i], ":") # 0
          /\ parts[i][Len(parts[i])] = CR

\* handleConn returned one of the errors of its parsing stage
Failed(c) == pc[c] \in {"returned", "closed"} /\ ret[c] \in ParseErrors

Starved(c) ==
  \/ /\ pc[c] \in {"reqline", "headers"}
     /\ ReadBytes(rbuf[c], net[c], fin[c]).err = "block"
  \/ /\ pc[c] = "body"
     /\ Read(req[c].contentLength, rbuf[c], net[c], fin[c]).err = "block"

\* the connection of c is closed
Closed(c) == pc[c] = "closed"

\* C19: the task of an accepted connection makes one read-parse-handle-write
\* cycle at most and, unless its client leaves it waiting for bytes, it
\* runs on until it has returned and closed the connection; a closed
\* connection is not read or written again, and once handleConn has
\* returned no second request is read from the connection.
C19_Lifecycle ==
  \A c \in Conns :
    /\ (Accepted(c) /\ ~Closed(c) /\ ~Starved(c)) => (Running /\ pc[c] # "panic")
    /\ Closed(c) => ~ENABLED TaskStep(c)
    /\ pc[c] = "returned" =>
         ~ENABLED (ReadRequestLine(c) \/ ReadHeaderLine(c) \/ Route(c) \/ ReadBody(c))

\* the task of c is between its accept and its close
Active(c) ==
  pc[c] \in {"reqline", "headers", "route", "body", "write", "readfile", "returned"}

\* C20: the tasks are independent under every interleaving: two
\* connections that send the same bytes for a route other than files are
\* written the same bytes, whatever ran between their steps; and whatever
\* the other tasks do or wait for, a task that is not waiting for its own
\* client can take its next step.
C20_Independent ==
  \A c \in Conns :
    /\ \A d \in Conns \ {c} :
         (/\ Completed(c) /\ Completed(d)
          /\ stream[c] = stream[d] /\ ~HasKey(c, KeyFiles)) => out[c] = out[d]
    /\ (Active(c) /\ ~Starved(c)) => Running

====
